---- MODULE Spec2Model ----
(***************************************************************************)
(* Model of the jitter sampler (bitcharmer/jitter-sampler-rust).           *)
(*                                                                         *)
(* main() parses the arguments (configuring and calibrating the clock),    *)
(* optionally mlocks, optionally raises the I/O privilege level, then      *)
(* spawns one capture_jitter thread per listed cpu inside a crossbeam      *)
(* scope and joins them.  capture_jitter pins the thread, optionally       *)
(* executes cli, runs busy_loop, optionally executes sti and publishes.    *)
(*                                                                         *)
(* Time.  TLC's integers are 32 bits wide, so time is counted in ticks of  *)
(* TickNs nanoseconds: the modelled time sources return multiples of       *)
(* TickNs, and every time value of the model (clock, previous, deadline,   *)
(* next_report, ts, latency, TIME_OFFSET) is a number of ticks.            *)
(***************************************************************************)
EXTENDS Integers, Sequences, FiniteSets, TLC

VARIABLES
    matches,        \* the command line as clap hands it to parse_program_args
    clock,          \* the true CLOCK_REALTIME of the host, in ticks
    steps,          \* the advances the host clock can make between two reads
    program_args,   \* ProgramArgs built by parse_program_args
    TSC_FREQUENCY,  \* static mut of utils.rs, cycles per tick, 0 when never set
    TIME_OFFSET,    \* static mut of utils.rs, in ticks
    calibWrites,    \* history: number of writes to TIME_OFFSET / TSC_FREQUENCY
                    \* and of sample pairs read to compute TIME_OFFSET
    pcMain,         \* position of main()
    exitCode,       \* process exit status, -1 while running
    failure,        \* what ended main() abnormally, "none" otherwise
    ioplCalls,      \* history: number of iopl(3) calls made
    threads         \* the spawned capture_jitter threads, in spawn order

vars == <<matches, clock, steps, program_args, TSC_FREQUENCY, TIME_OFFSET,
          calibWrites, pcMain, exitCode, failure, ioplCalls, threads>>

----------------------------------------------------------------------------
(* Program constants and the tick.                                         *)

NANOS_IN_SEC == 1000000000

NANOS_IN_MILLI == 1000000

BATCH_PUBLISH_THRESHOLD_BYTES == 768 * 1024

\* Resolution of the modelled time sources: a quarter of a second.
TickNs == 250 * NANOS_IN_MILLI

\* i64::MAX and i64::MIN of the source, at the width of the model's integers.
I64_MAX == 2147483647

I64_MIN == -I64_MAX - 1

\* duration_seconds * NANOS_IN_SEC, in ticks
DurationTicks(args) == args.duration_seconds * (NANOS_IN_SEC \div TickNs)

\* report_interval_millis * 1_000_000, in ticks
IntervalTicks(args) ==
    (args.report_interval_millis * (NANOS_IN_MILLI \div 1000)) \div (TickNs \div 1000)

----------------------------------------------------------------------------
(* Bounds of the model and the host it runs on.                            *)

\* Largest advance of the host clock between two consecutive clock reads.
MaxStep == 2

\* Logical processors of the host: cpus 0 .. NumCpus-1 can be pinned to.
NumCpus == 2

\* CLOCK_REALTIME when the process starts, and when the host booted
\* (CLOCK_MONOTONIC and the cycle counter count from boot).
EpochStart == 6

BootTime == 2

\* Cycles the hardware counter makes per tick.
HwCyclesPerTick == 2

\* The host clock is followed up to MaxClock: a read that would find it
\* later is not taken.
MaxClock == 26

\* The largest cpu id of the generated core lists.
MaxCpuId == 10

\* The clock advance seen by a read that follows a stall of the thread.
StallStep == 5

----------------------------------------------------------------------------
(* utils.rs: the time sources.  clk is the host's CLOCK_REALTIME at the    *)
(* moment of the read.                                                     *)

clock_realtime(clk) == clk

\* CLOCK_MONOTONIC counts from boot; TIME_OFFSET is added to the reading.
clock_monotonic(clk, offset) == (clk - BootTime) + offset

\* The cycle counter counts from boot.
rdtsc(clk) == (clk - BootTime) * HwCyclesPerTick

\* (rdtsc() as f64 / TSC_FREQUENCY) as i64 + TIME_OFFSET.  The f64 division
\* by 0.0 gives +inf for a positive counter and NaN for 0; the cast to i64
\* saturates +inf to i64::MAX and turns NaN into 0.
clock_rdtsc(clk, freq, offset) ==
    LET tsc == rdtsc(clk)
        quotient == IF freq = 0
                    THEN (IF tsc > 0 THEN I64_MAX ELSE 0)
                    ELSE tsc \div freq
    IN  quotient + offset

\* A call through the fn pointer program_args.time_func.
time_func(tf, clk, freq, offset) ==
    CASE tf = "clock_realtime"  -> clock_realtime(clk)
      [] tf = "clock_monotonic" -> clock_monotonic(clk, offset)
      [] tf = "rdtsc"           -> clock_rdtsc(clk, freq, offset)

\* Only the clock_gettime based sources unwrap() a Result.
CanFail(tf) == tf \in {"clock_realtime", "clock_monotonic"}

----------------------------------------------------------------------------
(* main.rs: parse_cpu_list.  A string is a sequence of one-character       *)
(* strings over the digits, ',' and '-'.                                   *)

DigitChars == <<"0", "1", "2", "3", "4", "5", "6", "7", "8", "9">>

IsDigit(c) == \E i \in 1 .. 10 : DigitChars[i] = c

DigitVal(c) == (CHOOSE i \in 1 .. 10 : DigitChars[i] = c) - 1

Contains(s, c) == \E i \in 1 .. Len(s) : s[i] = c

\* str::split: the pieces between the separators, empty pieces included
RECURSIVE Split(_, _)
Split(s, sep) ==
    IF ~Contains(s, sep)
    THEN <<s>>
    ELSE LET i == CHOOSE k \in 1 .. Len(s) :
                      s[k] = sep /\ \A j \in 1 .. k - 1 : s[j] # sep
         IN  <<SubSeq(s, 1, i - 1)>> \o Split(SubSeq(s, i + 1, Len(s)), sep)

\* str::parse::<u32>: the value, or -1 for Err (empty, or a non-digit)
RECURSIVE ParseDigits(_, _)
ParseDigits(s, acc) ==
    IF s = <<>> THEN acc
    ELSE ParseDigits(Tail(s), 10 * acc + DigitVal(Head(s)))

ParseU32(s) ==
    IF s = <<>> \/ \E i \in 1 .. Len(s) : ~IsDigit(s[i])
    THEN -1
    ELSE ParseDigits(s, 0)

\* Mutant: the range stops before its end (begin..end).
RangeSeqExclusive(begin, end) ==
    [i \in 1 .. (IF end > begin THEN end - begin ELSE 0) |-> begin + i - 1]

\* begin..end + 1
RangeSeq(begin, end) == [i \in 1 .. (IF end >= begin THEN end - begin + 1 ELSE 0)
                            |-> begin + i - 1]

\* One element of the list: [ok, cpus]; ok = FALSE is the expect() panic.
ParseElement(element) ==
    IF Contains(element, "-")
    THEN LET range == Split(element, "-")
             begin == ParseU32(range[1])
             end   == ParseU32(range[2])
         IN  IF begin < 0 \/ end < 0
             THEN [ok |-> FALSE, cpus |-> <<>>]
             ELSE [ok |-> TRUE, cpus |-> RangeSeq(begin, end)]
    ELSE LET cpu == ParseU32(element)
         IN  IF cpu < 0
             THEN [ok |-> FALSE, cpus |-> <<>>]
             ELSE [ok |-> TRUE, cpus |-> <<cpu>>]

RECURSIVE ParseElements(_, _)
ParseElements(elements, result) ==
    IF elements = <<>> THEN [ok |-> TRUE, cpus |-> result]
    ELSE LET e == ParseElement(Head(elements))
         IN  IF ~e.ok THEN [ok |-> FALSE, cpus |-> <<>>]
             ELSE ParseElements(Tail(elements), result \o e.cpus)

\* str::trim: the blanks at both ends are dropped
RECURSIVE Trim(_)
Trim(s) ==
    IF s # <<>> /\ Head(s) = " " THEN Trim(Tail(s))
    ELSE IF s # <<>> /\ s[Len(s)] = " " THEN Trim(SubSeq(s, 1, Len(s) - 1))
    ELSE s

parse_cpu_list(cpu_list_str) ==
    ParseElements(Split(Trim(cpu_list_str), ","), <<>>)

----------------------------------------------------------------------------
(* influx.rs: the publisher.  A request body is the sequence of the data   *)
(* points whose records it holds; its byte length is computed from the     *)
(* format string.  A host name is represented by its length in bytes.      *)

RECURSIVE Digits(_)
Digits(n) == IF n < 10 THEN 1 ELSE 1 + Digits(n \div 10)

\* length of "{}" for an i64
DecLen(n) == IF n < 0 THEN 1 + Digits(-n) ELSE Digits(n)

\* length of "{}" for a time of t ticks, which the program holds in
\* nanoseconds: the digits of t * TickNs
NsLen(t) == IF t = 0 THEN 1 ELSE DecLen(t * (TickNs \div 10000000)) + 7

\* "jitter,host={},cpu={} jitter={} {}\n"
RecordLen(args, cpu, data_point) ==
    12 + args.local_hostname + 5 + DecLen(cpu) + 8
       + NsLen(data_point.latency) + 1 + NsLen(data_point.ts) + 1

RECURSIVE BodyLen(_, _, _)
BodyLen(args, cpu, body) ==
    IF body = <<>> THEN 0
    ELSE RecordLen(args, cpu, Head(body)) + BodyLen(args, cpu, Tail(body))

\* The for loop of publish_results over the data points left, then the
\* last post_batch: the bodies posted, in request order.
RECURSIVE PublishLoop(_, _, _, _, _)
PublishLoop(args, cpu, rest, body, posted) ==
    IF rest = <<>>
    THEN Append(posted, body)
    ELSE LET pushed == Append(body, Head(rest))
         IN  IF BodyLen(args, cpu, pushed) >= BATCH_PUBLISH_THRESHOLD_BYTES
             THEN PublishLoop(args, cpu, Tail(rest), <<>>, Append(posted, pushed))
             ELSE PublishLoop(args, cpu, Tail(rest), pushed, posted)

\* Mutant: the last post_batch is skipped when nothing is left to send.
publish_results_skips_empty(args, cpu, results) ==
    LET posted == PublishLoop(args, cpu, results, <<>>, <<>>)
    IN  IF posted[Len(posted)] = <<>>
        THEN SubSeq(posted, 1, Len(posted) - 1)
        ELSE posted

\* Mutant: what is left in the buffer after the loop is not sent.
publish_results_without_rest(args, cpu, results) ==
    LET posted == PublishLoop(args, cpu, results, <<>>, <<>>)
    IN  SubSeq(posted, 1, Len(posted) - 1)

publish_results(args, cpu, results) == PublishLoop(args, cpu, results, <<>>, <<>>)

----------------------------------------------------------------------------
(* jitter.rs: one capture_jitter thread.                                   *)
(*   pc: affinitize -> mask -> alloc -> loop_init -> loop -> unmask ->     *)
(*       publish -> done, or panicked (with its cause)                     *)
(* deltas and slot_deltas are history: the poll-to-poll deltas computed    *)
(* since the last emission, and those that went into each written slot.    *)

NewThread(cpu) ==
    [cpu |-> cpu, pc |-> "affinitize", cause |-> "none", masked |-> FALSE,
     results |-> <<>>, previous |-> 0, deadline |-> 0, next_report |-> 0,
     max |-> 0, idx |-> 0, requests |-> <<>>, measuring |-> FALSE,
     deltas |-> {}, slot_deltas |-> <<>>]

Panic(t, cause) == [t EXCEPT !.pc = "panicked", !.cause = cause]

\* affinitize_to_cpu: CpuSet::set / sched_setaffinity reject a cpu the host
\* does not have, and expect() panics.
affinitize_to_cpu(t) ==
    IF t.cpu < NumCpus THEN [t EXCEPT !.pc = "mask"] ELSE Panic(t, "affinity")

\* Mutant: interrupts are left alone before the loop.
mask_interrupts_skipped(t, args) == [t EXCEPT !.pc = "alloc"]

\* capture_jitter, lines 17-20
mask_interrupts(t, args) ==
    [t EXCEPT !.pc = "alloc",
              !.masked = IF ~args.lapic_enabled THEN TRUE ELSE @]

\* capture_jitter, lines 22-23: the division panics on a zero interval
allocate_results(t, args) ==
    IF args.report_interval_millis = 0
    THEN Panic(t, "div_zero")
    ELSE LET sample_count ==
                 (args.duration_seconds * 1000) \div args.report_interval_millis
         IN  [t EXCEPT !.pc = "loop_init",
                       !.results = [i \in 1 .. sample_count |->
                                       [ts |-> 0, latency |-> 0]]]

\* busy_loop, lines 36-41
busy_loop_init(t, args, now) ==
    [t EXCEPT !.pc = "loop",
              !.measuring = TRUE,
              !.previous = now,
              !.deadline = now + DurationTicks(args),
              !.next_report = now + IntervalTicks(args),
              !.max = I64_MIN,
              !.idx = 0]

\* Mutant: the running maximum is not reset when a sample is emitted.
busy_loop_iter_keeps_max(t, args, now, reread) ==
    LET latency == now - t.previous
        max == IF latency > t.max THEN latency ELSE t.max
    IN  IF now > t.next_report
        THEN IF t.idx >= Len(t.results)
             THEN Panic([t EXCEPT !.next_report = now + IntervalTicks(args),
                                  !.max = max], "index")
             ELSE [t EXCEPT !.next_report = now + IntervalTicks(args),
                            !.results[t.idx + 1] = [ts |-> now, latency |-> max],
                            !.max = max,
                            !.idx = @ + 1,
                            !.previous = reread,
                            !.slot_deltas = Append(@, t.deltas \cup {latency}),
                            !.deltas = {}]
        ELSE [t EXCEPT !.max = max,
                       !.previous = now,
                       !.deltas = @ \cup {latency}]

\* Mutant: the window boundary is tested with >= and not moved on emission.
busy_loop_iter_stale_boundary(t, args, now, reread) ==
    LET latency == now - t.previous
        max == IF latency > t.max THEN latency ELSE t.max
    IN  IF now >= t.next_report
        THEN IF t.idx >= Len(t.results)
             THEN Panic([t EXCEPT !.max = max], "index")
             ELSE [t EXCEPT !.results[t.idx + 1] = [ts |-> now, latency |-> max],
                            !.max = I64_MIN,
                            !.idx = @ + 1,
                            !.previous = reread,
                            !.slot_deltas = Append(@, t.deltas \cup {latency}),
                            !.deltas = {}]
        ELSE [t EXCEPT !.max = max,
                       !.previous = now,
                       !.deltas = @ \cup {latency}]

\* busy_loop, one iteration of the while loop (lines 44-59); now is the
\* reading of line 44 and reread the reading of line 56
busy_loop_iter(t, args, now, reread) ==
    LET latency == now - t.previous
        max == IF latency > t.max THEN latency ELSE t.max
    IN  IF now > t.next_report
        THEN IF t.idx >= Len(t.results)
             THEN Panic([t EXCEPT !.next_report = now + IntervalTicks(args),
                                  !.max = max], "index")
             ELSE [t EXCEPT !.next_report = now + IntervalTicks(args),
                            !.results[t.idx + 1] = [ts |-> now, latency |-> max],
                            !.max = I64_MIN,
                            !.idx = @ + 1,
                            !.previous = reread,
                            !.slot_deltas = Append(@, t.deltas \cup {latency}),
                            !.deltas = {}]
        ELSE [t EXCEPT !.max = max,
                       !.previous = now,
                       !.deltas = @ \cup {latency}]

\* capture_jitter, lines 26-29
unmask_interrupts(t, args) ==
    [t EXCEPT !.pc = "publish",
              !.masked = IF ~args.lapic_enabled THEN FALSE ELSE @]

\* capture_jitter, line 31
publish(t, args) ==
    [t EXCEPT !.pc = "done",
              !.requests = publish_results(args, t.cpu, t.results)]

----------------------------------------------------------------------------
(* main.rs: parse_program_args and configure_clock.                        *)

\* ProgramArgs::default()
DefaultArgs ==
    [duration_seconds |-> 0, report_interval_millis |-> 0, cpus |-> <<>>,
     time_func |-> "clock_realtime", mlock_enabled |-> FALSE,
     lapic_enabled |-> TRUE, local_hostname |-> 0]

TimeSources == {"clock_realtime", "clock_monotonic", "rdtsc"}

\* Mutant: the negation is dropped, so interrupts are masked by default.
lapic_enabled_plain(m) == m.lapic

\* lapic_enabled: !matches.is_present("lapic")
lapic_enabled(m) == ~m.lapic

\* mlock_enabled: matches.is_present("mlock")
mlock_enabled(m) == m.mlock

\* configure_clock, lines 65-69: the frequency after the optional write
configured_frequency(m, freq) ==
    IF m.tsc_frequency # <<>> THEN m.tsc_frequency[1] ELSE freq

\* configure_clock, line 83: clock_realtime() - time_func(), the wall clock
\* read at rt and the selected source at clk >= rt
calibration_offset(m, rt, clk, freq, offset) ==
    clock_realtime(rt) - time_func(m.time_source, clk, freq, offset)

\* The struct literal of parse_program_args, lines 48-58
build_program_args(m, cpus) ==
    [duration_seconds |-> m.duration_seconds,
     report_interval_millis |-> m.report_interval_millis,
     cpus |-> cpus,
     time_func |-> m.time_source,
     mlock_enabled |-> mlock_enabled(m),
     lapic_enabled |-> lapic_enabled(m),
     local_hostname |-> m.hostname]

MainPanics(cause) ==
    /\ pcMain' = "exited"
    /\ exitCode' = 101
    /\ failure' = cause

\* parse_program_args: the fields are evaluated in the order written, so the
\* cpu list is parsed before configure_clock runs.
ParseArgs ==
    /\ pcMain = "parse"
    /\ LET list == parse_cpu_list(matches.cpus)
           freq == configured_frequency(matches, TSC_FREQUENCY)
           wrote == IF matches.tsc_frequency # <<>> THEN 1 ELSE 0
       IN  IF ~list.ok
           THEN /\ MainPanics("cpu_list")
                /\ UNCHANGED <<clock, program_args, TSC_FREQUENCY, TIME_OFFSET,
                               calibWrites>>
           ELSE /\ TSC_FREQUENCY' = freq
                /\ IF matches.time_source \notin TimeSources
                   THEN /\ MainPanics("clock_type")
                        /\ calibWrites' = [calibWrites EXCEPT !.frequency = @ + wrote]
                        /\ UNCHANGED <<clock, program_args, TIME_OFFSET>>
                   ELSE IF matches.time_source = "clock_realtime"
                   THEN /\ program_args' = build_program_args(matches, list.cpus)
                        /\ pcMain' = "mlock"
                        /\ calibWrites' = [calibWrites EXCEPT !.frequency = @ + wrote]
                        /\ UNCHANGED <<clock, TIME_OFFSET, exitCode, failure>>
                   ELSE \E d1 \in steps \cup {0}, d2 \in steps \cup {0},
                           readOk \in BOOLEAN :
                        /\ clock + d1 + d2 <= MaxClock
                        /\ IF readOk
                           THEN d1 \in steps /\ d2 \in steps
                           ELSE d1 = 0 /\ d2 = 0
                        /\ IF readOk
                           THEN /\ TIME_OFFSET' =
                                       calibration_offset(matches, clock + d1,
                                           clock + d1 + d2, freq, TIME_OFFSET)
                                /\ clock' = clock + d1 + d2
                                /\ program_args' =
                                       build_program_args(matches, list.cpus)
                                /\ pcMain' = "mlock"
                                /\ calibWrites' =
                                       [calibWrites EXCEPT !.frequency = @ + wrote,
                                                           !.offset = @ + 1,
                                                           !.samples = @ + 1]
                                /\ UNCHANGED <<exitCode, failure>>
                           ELSE /\ MainPanics("clock_read")
                                /\ calibWrites' =
                                       [calibWrites EXCEPT !.frequency = @ + wrote]
                                /\ UNCHANGED <<clock, program_args, TIME_OFFSET>>
    /\ UNCHANGED <<matches, steps, ioplCalls, threads>>

\* main, lines 21-23: mlock() panics when mlockall fails
Mlock ==
    /\ pcMain = "mlock"
    /\ IF program_args.mlock_enabled
       THEN \E ok \in BOOLEAN :
                IF ok
                THEN pcMain' = "iopl" /\ UNCHANGED <<exitCode, failure>>
                ELSE MainPanics("mlock")
       ELSE pcMain' = "iopl" /\ UNCHANGED <<exitCode, failure>>
    /\ UNCHANGED <<matches, clock, steps, program_args, TSC_FREQUENCY, TIME_OFFSET,
                   calibWrites, ioplCalls, threads>>

\* Mutant: a refused iopl(3) is logged and main goes on to spawn.
after_iopl_ignores_refusal(ok) ==
    [pc |-> "spawn", code |-> -1, failure |-> IF ok THEN "none" ELSE "iopl"]

\* main, lines 27-30: where main goes after iopl(3) returned (ok: it gave 0)
after_iopl(ok) ==
    IF ok THEN [pc |-> "spawn", code |-> -1, failure |-> "none"]
    ELSE [pc |-> "exited", code |-> 1, failure |-> "iopl"]

\* main, lines 25-32: iopl(3), and exit(1) when it is refused
Iopl ==
    /\ pcMain = "iopl"
    /\ IF ~program_args.lapic_enabled
       THEN /\ ioplCalls' = ioplCalls + 1
            /\ \E ok \in BOOLEAN :
                   /\ pcMain' = after_iopl(ok).pc
                   /\ exitCode' = after_iopl(ok).code
                   /\ failure' = after_iopl(ok).failure
       ELSE /\ pcMain' = "spawn"
            /\ UNCHANGED <<exitCode, failure, ioplCalls>>
    /\ UNCHANGED <<matches, clock, steps, program_args, TSC_FREQUENCY, TIME_OFFSET,
                   calibWrites, threads>>

\* Mutant: every thread is handed the first cpu of the list.
spawn_cpu_first(cpus, n) == cpus[1]

\* main, lines 38-39: the cpu handed to the thread spawned after n others
spawn_cpu(cpus, n) == cpus[n + 1]

\* Mutant: the for loop joins the threads it spawned before the next spawn.
spawn_after_join(cpus, spawned) ==
    /\ Len(spawned) < Len(cpus)
    /\ \A i \in 1 .. Len(spawned) : spawned[i].pc \in {"done", "panicked"}

\* main, lines 38-40: s.spawn returns at once and the for loop goes on while
\* the list has a cpu left, whatever the threads spawned so far are doing
spawn_next(cpus, spawned) == Len(spawned) < Len(cpus)

\* main, lines 38-40: the for loop spawns the thread of the next cpu
Spawn ==
    /\ pcMain = "spawn"
    /\ spawn_next(program_args.cpus, threads)
    /\ threads' = Append(threads, NewThread(spawn_cpu(program_args.cpus, Len(threads))))
    /\ UNCHANGED <<matches, clock, steps, program_args, TSC_FREQUENCY, TIME_OFFSET,
                   calibWrites, pcMain, exitCode, failure, ioplCalls>>

Terminated(t) == t.pc \in {"done", "panicked"}

\* Mutant: the scope ends as soon as one thread has panicked.
scope_ends_on_panic ==
    \/ \E i \in 1 .. Len(threads) : threads[i].pc = "panicked"
    \/ \A i \in 1 .. Len(threads) : Terminated(threads[i])

\* The scope may end once every thread spawned in it has ended.
scope_may_end == \A i \in 1 .. Len(threads) : Terminated(threads[i])

\* The exit status after the scope: unwrap() panics on a panicked thread.
scope_exit_code == IF \E i \in 1 .. Len(threads) : threads[i].pc = "panicked"
                   THEN 101 ELSE 0

\* main, line 41: the scope joins every thread, then main returns
Join ==
    /\ pcMain = "spawn"
    /\ Len(threads) = Len(program_args.cpus)
    /\ scope_may_end
    /\ pcMain' = "exited"
    /\ exitCode' = scope_exit_code
    /\ failure' = IF scope_exit_code = 0 THEN "none" ELSE "join"
    /\ UNCHANGED <<matches, clock, steps, program_args, TSC_FREQUENCY, TIME_OFFSET,
                   calibWrites, ioplCalls, threads>>

----------------------------------------------------------------------------
(* The steps of thread i.                                                  *)

Now(clk) == time_func(program_args.time_func, clk, TSC_FREQUENCY, TIME_OFFSET)

ThreadStep(i, t) ==
    /\ threads' = [threads EXCEPT ![i] = t]
    /\ UNCHANGED <<matches, steps, program_args, TSC_FREQUENCY, TIME_OFFSET,
                   calibWrites, pcMain, exitCode, failure, ioplCalls>>

Affinitize(i) ==
    /\ threads[i].pc = "affinitize"
    /\ ThreadStep(i, affinitize_to_cpu(threads[i]))
    /\ UNCHANGED clock

MaskInterrupts(i) ==
    /\ threads[i].pc = "mask"
    /\ ThreadStep(i, mask_interrupts(threads[i], program_args))
    /\ UNCHANGED clock

Allocate(i) ==
    /\ threads[i].pc = "alloc"
    /\ ThreadStep(i, allocate_results(threads[i], program_args))
    /\ UNCHANGED clock

LoopInit(i) ==
    /\ threads[i].pc = "loop_init"
    /\ \E d \in steps :
           /\ clock + d <= MaxClock
           /\ clock' = clock + d
           /\ ThreadStep(i, busy_loop_init(threads[i], program_args, Now(clock + d)))

LoopIter(i) ==
    /\ threads[i].pc = "loop"
    /\ threads[i].previous < threads[i].deadline
    /\ \E d1 \in steps, d2 \in steps \cup {0} :
           LET now == Now(clock + d1)
               rereads == now > threads[i].next_report
                              /\ threads[i].idx < Len(threads[i].results)
           IN  /\ clock + d1 + d2 <= MaxClock
               /\ IF rereads THEN d2 \in steps ELSE d2 = 0
               /\ clock' = clock + d1 + d2
               /\ ThreadStep(i, busy_loop_iter(threads[i], program_args, now,
                                               Now(clock + d1 + d2)))

LoopExit(i) ==
    /\ threads[i].pc = "loop"
    /\ ~(threads[i].previous < threads[i].deadline)
    /\ ThreadStep(i, [threads[i] EXCEPT !.pc = "unmask"])
    /\ UNCHANGED clock

\* clock_gettime(..).unwrap() panics in the thread that reads the clock
TimeFuncFails(i) ==
    /\ \/ threads[i].pc = "loop_init"
       \/ threads[i].pc = "loop" /\ threads[i].previous < threads[i].deadline
    /\ CanFail(program_args.time_func)
    /\ ThreadStep(i, Panic(threads[i], "time_func"))
    /\ UNCHANGED clock

Unmask(i) ==
    /\ threads[i].pc = "unmask"
    /\ ThreadStep(i, unmask_interrupts(threads[i], program_args))
    /\ UNCHANGED clock

Publish(i) ==
    /\ threads[i].pc = "publish"
    /\ ThreadStep(i, publish(threads[i], program_args))
    /\ UNCHANGED clock

Running == 1 .. Len(threads)

Next ==
    \/ ParseArgs
    \/ Mlock
    \/ Iopl
    \/ Spawn
    \/ Join
    \/ \E i \in Running : Affinitize(i)
    \/ \E i \in Running : MaskInterrupts(i)
    \/ \E i \in Running : Allocate(i)
    \/ \E i \in Running : LoopInit(i)
    \/ \E i \in Running : LoopIter(i)
    \/ \E i \in Running : LoopExit(i)
    \/ \E i \in Running : TimeFuncFails(i)
    \/ \E i \in Running : Unmask(i)
    \/ \E i \in Running : Publish(i)

----------------------------------------------------------------------------
(* Command lines.                                                          *)

Matches(durations, intervals, lists, sources, freqs, mlocks, lapics, hosts) ==
    [duration_seconds : durations, report_interval_millis : intervals,
     cpus : lists, time_source : sources, tsc_frequency : freqs,
     mlock : mlocks, lapic : lapics, hostname : hosts]

InitWith(command_lines, clock_steps) ==
    /\ matches \in command_lines
    /\ clock = EpochStart
    /\ steps = clock_steps
    /\ program_args = DefaultArgs
    /\ TSC_FREQUENCY = 0
    /\ TIME_OFFSET = 0
    /\ calibWrites = [frequency |-> 0, offset |-> 0, samples |-> 0]
    /\ pcMain = "parse"
    /\ exitCode = -1
    /\ failure = "none"
    /\ ioplCalls = 0
    /\ threads = <<>>

\* Whole runs: two threads (on one cpu twice, and with a cpu the host does
\* not have), and one thread over the time sources, the flags, a zero
\* interval and a list that does not parse.
RunInputs ==
    Matches({1}, {500}, {<<"0", ",", "0">>, <<"0", ",", "9">>},
            {"clock_realtime"}, {<<>>}, {FALSE}, BOOLEAN, {9})
        \cup Matches({1}, {0, 500}, {<<"0">>, <<"0", "-">>},
                     {"clock_realtime", "rdtsc", "hpet"}, {<<>>, <<2>>},
                     BOOLEAN, BOOLEAN, {9})

Init == InitWith(RunInputs, {1, MaxStep})

Spec == Init /\ [][Next]_vars

\* One sampler over the window and run lengths, the host clock advancing by
\* any step (none included) between two reads.
SamplerInputs ==
    Matches({1, 2}, {500, 1000}, {<<"0">>}, {"clock_realtime"}, {<<>>}, {FALSE},
            {FALSE}, {9})
        \cup Matches({1}, {250, 500}, {<<"0">>}, {"clock_monotonic"}, {<<>>},
                     {FALSE}, {FALSE}, {9})

InitSampler == InitWith(SamplerInputs, 0 .. MaxStep)

SpecSampler == InitSampler /\ [][Next]_vars

\* One sampler and its publisher over host names short and long enough for
\* a few records to fill a batch, and a run with no slot at all.
PublishInputs ==
    Matches({1}, {250, 2000}, {<<"0">>}, {"clock_realtime"}, {<<>>}, {FALSE},
            {FALSE}, {9, 300000, 400000, 800000})

InitPublish == InitWith(PublishInputs, {1, MaxStep})

SpecPublish == InitPublish /\ [][Next]_vars

\* The core lists given to the parser: a token is <<a>> for the single cpu a
\* or <<a, b>> for the range a-b; a list of tokens is written in decimal,
\* the tokens joined by commas.
RECURSIVE Decimal(_)
Decimal(n) ==
    IF n < 10 THEN <<DigitChars[n + 1]>>
    ELSE Decimal(n \div 10) \o <<DigitChars[(n % 10) + 1]>>

WriteToken(tok) ==
    IF Len(tok) = 1 THEN Decimal(tok[1])
    ELSE Decimal(tok[1]) \o <<"-">> \o Decimal(tok[2])

RECURSIVE WriteList(_)
WriteList(toks) ==
    IF Len(toks) = 1 THEN WriteToken(toks[1])
    ELSE WriteToken(toks[1]) \o <<",">> \o WriteList(Tail(toks))

RECURSIVE Expand(_)
Expand(toks) ==
    IF toks = <<>> THEN <<>>
    ELSE LET tok == Head(toks)
             cpus == IF Len(tok) = 1 THEN <<tok[1]>>
                     ELSE [i \in 1 .. tok[2] - tok[1] + 1 |-> tok[1] + i - 1]
         IN  cpus \o Expand(Tail(toks))

Tokens ==
    {<<a>> : a \in 0 .. MaxCpuId}
        \cup {<<a, b>> : a \in 0 .. MaxCpuId, b \in 0 .. MaxCpuId}

AscendingTokens == {tok \in Tokens : Len(tok) = 1 \/ tok[1] <= tok[2]}

\* The example of the usage text.
UsageExample == << <<1>>, <<4, 6>>, <<8, 12>>, <<15>> >>

\* Lists of one and of two tokens whose ranges ascend, and the example.
WellFormedLists ==
    {<<tok>> : tok \in AscendingTokens}
        \cup {<<t1, t2>> : t1 \in AscendingTokens, t2 \in AscendingTokens}
        \cup {UsageExample}

\* Each well formed list with the string that writes it.
WrittenLists == {[toks |-> toks, str |-> WriteList(toks)] : toks \in WellFormedLists}

\* The strings of the parser runs: the well formed lists, single descending
\* ranges, a list between blanks, and strings that are not core lists.
CpuListStrings ==
    {w.str : w \in WrittenLists}
        \cup {WriteToken(tok) : tok \in Tokens}
        \cup {<<" ", "1", ",", "3", " ">>, <<"1", ",", " ", "3">>, <<>>,
              <<"4", "-">>, <<"-", "4">>, <<"1", ",", ",", "2">>, <<"a">>}

ParseInputs ==
    Matches({1}, {1000}, CpuListStrings, {"clock_realtime"}, {<<>>}, {FALSE},
            {FALSE}, {9})

InitParse == InitWith(ParseInputs, {MaxStep})

\* parse_program_args alone: the run stops once the arguments are built.
NextParse == ParseArgs

SpecParse == InitParse /\ [][NextParse]_vars

\* One sampler whose report interval does not divide the run or is longer
\* than it, on a host where a read may come after a stall.
StallInputs ==
    Matches({1, 2}, {750, 1250}, {<<"0">>}, {"clock_realtime"}, {<<>>}, {FALSE},
            {FALSE}, {9})

InitStall == InitWith(StallInputs, {1, StallStep})

SpecStall == InitStall /\ [][Next]_vars

----------------------------------------------------------------------------
(* Properties.                                                             *)

RECURSIVE Concat(_)
Concat(bodies) ==
    IF bodies = <<>> THEN <<>> ELSE Head(bodies) \o Concat(Tail(bodies))

\* The records thread t has sent, in request order
Published(t) == Concat(t.requests)

EvenlyDivides(args) ==
    /\ args.report_interval_millis > 0
    /\ (args.duration_seconds * 1000) % args.report_interval_millis = 0

\* C1: when the report interval evenly divides the run, a pipeline that ran
\* to completion has published exactly duration_seconds * 1000 /
\* report_interval_millis records and none of them has timestamp 0 (the
\* slots the sampler never wrote are left out).
C1_PublishesEveryWindowAndNoSentinel ==
    \A i \in Running :
        (threads[i].pc = "done" /\ EvenlyDivides(program_args)) =>
            /\ Len(Published(threads[i])) =
                   (program_args.duration_seconds * 1000)
                       \div program_args.report_interval_millis
            /\ \A k \in 1 .. Len(Published(threads[i])) :
                   Published(threads[i])[k].ts # 0

\* C2: the worst_latency of every emitted sample is >= every poll-to-poll
\* delta computed since the previous emission, the delta of the iteration
\* that crossed the boundary included, and it is one of those deltas: the
\* maximum was reset, so no delta of an earlier window stands in it.
C2_WorstLatencyIsWindowMaximum ==
    \A i \in Running :
        \A k \in 1 .. threads[i].idx :
            /\ \A d \in threads[i].slot_deltas[k] :
                   threads[i].results[k].latency >= d
            /\ threads[i].results[k].latency \in threads[i].slot_deltas[k]

\* C2 witness: a second sample smaller than the first, taken over a window
\* of several different deltas.
C2_Witness ==
    \E i \in Running :
        /\ threads[i].idx >= 2
        /\ threads[i].results[1].latency > threads[i].results[2].latency
        /\ Cardinality(threads[i].slot_deltas[2]) >= 2

\* C3: the samples written so far are strictly ordered by window close
\* time: ts[i] < ts[j] for any two written slots i < j.
C3_WrittenSlotsStrictlyOrdered ==
    \A i \in Running :
        \A j \in 1 .. threads[i].idx, k \in 1 .. threads[i].idx :
            j < k => threads[i].results[j].ts < threads[i].results[k].ts

\* C3 witness: three samples written.
C3_Witness ==
    \E i \in Running : threads[i].idx >= 3 /\ threads[i].pc = "loop"

\* C4: publish_results sends a request each time the buffer reaches the
\* threshold after a record is appended (not before, and the buffer starts
\* again empty), and exactly one more after the last sample whatever is
\* left: k fillings give k + 1 requests, and no sample at all gives one
\* request with an empty body.
C4_FlushAtThresholdAndOnceMore ==
    \A i \in Running :
        threads[i].pc = "done" =>
            LET t == threads[i]
                n == Len(t.requests)
                Size(body) == BodyLen(program_args, t.cpu, body)
            IN  /\ n >= 1
                /\ \A k \in 1 .. n - 1 :
                       /\ t.requests[k] # <<>>
                       /\ Size(t.requests[k]) >= BATCH_PUBLISH_THRESHOLD_BYTES
                       /\ Size(SubSeq(t.requests[k], 1, Len(t.requests[k]) - 1))
                              < BATCH_PUBLISH_THRESHOLD_BYTES
                /\ Size(t.requests[n]) < BATCH_PUBLISH_THRESHOLD_BYTES
                /\ Len(Published(t)) = Len(t.results)
                /\ t.results = <<>> => t.requests = << <<>> >>

\* C4 witness: the threshold was reached twice by batches of several
\* records, and a remainder was sent after them.
C4_Witness ==
    \E i \in Running :
        /\ threads[i].pc = "done"
        /\ Len(threads[i].requests) = 3
        /\ Len(threads[i].requests[1]) >= 2

\* C5: when a startup precondition fails (the privilege elevation, the
\* memory lock, or the affinity of any listed cpu), no pipeline has made
\* the first clock read of its sampling loop, then or later.
C5_StartupFailureBeforeAnyMeasurement ==
    (\/ failure \in {"mlock", "iopl"}
     \/ \E i \in Running : threads[i].cause = "affinity")
        => \A j \in Running : ~threads[j].measuring

\* C6: a pipeline's fatal failure does not end its siblings or the process:
\* while a sibling is still running the process has not exited; the failure
\* reaches main only at the join, with every pipeline spawned and ended;
\* and the process then exits non-zero exactly when some pipeline failed.
C6_FailureSurfacesAfterAllJoined ==
    /\ ((\E i \in Running : threads[i].pc = "panicked")
            /\ (\E j \in Running : ~Terminated(threads[j])))
           => (pcMain = "spawn" /\ exitCode = -1)
    /\ failure = "join" =>
           /\ pcMain = "exited"
           /\ Len(threads) = Len(program_args.cpus)
           /\ \A i \in Running : Terminated(threads[i])
    /\ (pcMain = "exited" /\ threads # <<>>) =>
           ((exitCode # 0) <=> (\E i \in Running : threads[i].pc = "panicked"))

\* C6 witness: the process has exited non-zero after one pipeline panicked
\* and its sibling sampled and published.
C6_Witness ==
    /\ pcMain = "exited"
    /\ exitCode = 101
    /\ \E i \in Running, j \in Running :
           /\ threads[i].pc = "panicked"
           /\ threads[j].pc = "done"
           /\ threads[j].idx >= 1

\* C7: the orchestrator starts one pipeline per entry of the core list, in
\* list order and with that entry's cpu, duplicates included, and returns
\* only when all n have been started and every one has ended.
C7_OnePipelinePerListEntry ==
    /\ Len(threads) <= Len(program_args.cpus)
    /\ \A i \in Running : threads[i].cpu = program_args.cpus[i]
    /\ (pcMain = "exited" /\ failure \in {"none", "join"}) =>
           /\ Len(threads) = Len(program_args.cpus)
           /\ \A i \in Running : Terminated(threads[i])

\* C7 witness: main has returned from a list of two entries, the second a
\* cpu other than the first.
C7_Witness ==
    /\ pcMain = "exited"
    /\ Len(threads) = 2
    /\ threads[1].cpu # threads[2].cpu

\* C8: interrupts are masked on a pipeline's cpu, and iopl(3) is called,
\* only if the lapic flag was given on the command line.
C8_MaskingIsOptIn ==
    (ioplCalls > 0 \/ \E i \in Running : threads[i].masked) => matches.lapic

\* C8 witness: a pipeline samples with interrupts masked.
C8_Witness ==
    /\ matches.lapic
    /\ ioplCalls = 1
    /\ \E i \in Running : threads[i].masked /\ threads[i].pc = "loop"

\* C9: no pipeline reaches its sampling loop with the hardware counter
\* selected and the frequency left unset (0): clock configuration fails
\* before any pipeline starts.
C9_NoSamplingWithoutFrequency ==
    \A i \in Running :
        threads[i].measuring =>
            ~(program_args.time_func = "rdtsc" /\ TSC_FREQUENCY = 0)

\* C10: iopl(3) is called at most once, by main, before any pipeline is
\* spawned; when it is refused the process has exited non-zero and no
\* pipeline was ever started.
C10_PrivilegeFailureIsFatalAtStartup ==
    /\ ioplCalls <= 1
    /\ (threads # <<>> /\ matches.lapic) => (ioplCalls = 1 /\ failure # "iopl")
    /\ failure = "iopl" =>
           /\ pcMain = "exited"
           /\ exitCode > 0
           /\ threads = <<>>

\* C10 witness: iopl(3) was refused.
C10_Witness == failure = "iopl" /\ ioplCalls = 1

\* C11: pipelines run in parallel: while the core list has an entry left,
\* main can spawn its pipeline whatever the pipelines spawned before are
\* doing (none has to have ended), and a pipeline that has not ended can
\* take its next step whatever its siblings are doing.
C11_SpawnDoesNotWaitForSiblings ==
    /\ (pcMain = "spawn" /\ Len(threads) < Len(program_args.cpus))
           => ENABLED Spawn
    /\ \A i \in Running :
           threads[i].pc \in {"affinitize", "mask", "alloc", "unmask", "publish"}
               => ENABLED (\/ Affinitize(i) \/ MaskInterrupts(i) \/ Allocate(i)
                           \/ Unmask(i) \/ Publish(i))

\* C11 witness: every pipeline of a list of two is inside its sampling loop
\* at the same time, each with a sample written.
C11_Witness ==
    /\ Len(program_args.cpus) = 2
    /\ Len(threads) = 2
    /\ \A i \in Running : threads[i].pc = "loop" /\ threads[i].idx >= 1

\* C12: once a pipeline has been launched with a time source other than the
\* wall clock, TIME_OFFSET has been written exactly once, and with the
\* hardware counter TSC_FREQUENCY has been written exactly once too; both
\* writes were made by clock configuration before the first launch, so the
\* counts stand from then on.
C12_CalibrationWrittenOnceBeforeLaunch ==
    (threads # <<>> /\ program_args.time_func # "clock_realtime") =>
        /\ calibWrites.offset = 1
        /\ program_args.time_func = "rdtsc" => calibWrites.frequency = 1

\* C13: parse_cpu_list maps a comma separated list whose tokens are single
\* cpus or ranges A-B with A <= B to the sequence that holds, in token
\* order, the cpu of each single token and A, A+1, ..., B for each range,
\* nothing removed and nothing reordered.
C13_CpuListExpandsInTokenOrder ==
    \A w \in WrittenLists :
        (matches.cpus = w.str /\ pcMain # "parse") =>
            /\ failure = "none"
            /\ program_args.cpus = Expand(w.toks)

\* C13 witness: the example "1,4-6,8-12,15" has been parsed.
C13_Witness ==
    /\ matches.cpus = WriteList(UsageExample)
    /\ program_args.cpus = <<1, 4, 5, 6, 8, 9, 10, 11, 12, 15>>

\* C14: in each pipeline the steps come in the order pin, mask (if asked
\* for), sampling loop, unmask, publish: a pipeline that has made the first
\* clock read of its loop was pinned and is past masking; while it is in the
\* loop with masking asked for, interrupts are masked; and a flush request
\* has been sent only by a pipeline whose loop has exited (previous >=
\* deadline) and whose interrupts are unmasked.
C14_PinMaskLoopUnmaskPublish ==
    \A i \in Running :
        LET t == threads[i] IN
        /\ t.measuring =>
               /\ t.pc \in {"loop", "unmask", "publish", "done", "panicked"}
               /\ t.cause # "affinity"
        /\ (t.pc = "loop" /\ ~program_args.lapic_enabled) => t.masked
        /\ (t.pc \in {"affinitize", "mask"}) => ~t.masked
        /\ t.requests # <<>> =>
               /\ t.pc = "done"
               /\ t.measuring
               /\ t.previous >= t.deadline
               /\ ~t.masked

\* C14 witness: a pipeline that masked interrupts has sampled, unmasked and
\* published.
C14_Witness ==
    \E i \in Running :
        /\ matches.lapic
        /\ threads[i].pc = "done"
        /\ threads[i].idx >= 1
        /\ threads[i].requests # <<>>

\* C15: the window boundary stays on a fixed grid: after k emissions
\* next_report equals the first clock reading plus (k + 1) report intervals,
\* however late the crossing reading was.
C15_WindowBoundaryOnFixedGrid ==
    \A i \in Running :
        (threads[i].measuring /\ threads[i].pc # "panicked") =>
            threads[i].next_report =
                (threads[i].deadline - DurationTicks(program_args))
                    + (threads[i].idx + 1) * IntervalTicks(program_args)

\* C16: whatever the configuration (an interval that does not divide the
\* run, or one longer than the run) and however the clock advances, the
\* sampler writes at most duration_seconds * 1000 / report_interval_millis
\* samples and never indexes outside the result sequence: a boundary
\* crossed with every slot filled is dropped without a panic.
C16_NeverWritesOutsideResults ==
    \A i \in Running :
        /\ threads[i].cause # "index"
        /\ threads[i].measuring =>
               threads[i].idx <= (program_args.duration_seconds * 1000)
                                     \div program_args.report_interval_millis

\* C17: the sampling loop is left exactly when previous >= deadline, the
\* deadline being the first clock reading plus the run duration: right after
\* the first reading deadline = previous + duration; a pipeline in the loop
\* can leave it if and only if previous >= deadline; and a pipeline that is
\* no longer in its loop, unless a clock read failed, has previous >=
\* deadline (nothing but the run duration ends the loop).
C17_LoopLeftOnlyAtDeadline ==
    \A i \in Running :
        LET t == threads[i] IN
        /\ (t.pc = "loop" /\ t.idx = 0 /\ t.deltas = {}) =>
               t.deadline = t.previous + DurationTicks(program_args)
        /\ t.pc = "loop" => (ENABLED LoopExit(i) <=> t.previous >= t.deadline)
        /\ (t.measuring /\ t.pc # "loop" /\ t.cause # "time_func") =>
               t.previous >= t.deadline

\* The threads are scheduled by the operating system: a step that stays
\* possible is taken at last.
SpecStallFair == InitStall /\ [][Next]_vars /\ WF_vars(Next)

\* C17, the liveness half: a pipeline in its sampling loop leaves it at
\* last for the unmask step, unless a clock read fails.
C17_LoopEventuallyLeft ==
    (Len(threads) = 1 /\ threads[1].pc = "loop")
        ~> (Len(threads) = 1 /\ (\/ threads[1].pc = "unmask"
                                 \/ threads[1].cause = "time_func"))

\* C18: with the hardware counter the stored calibration offset is taken
\* over repeated samples of the difference between the counter derived time
\* and the wall clock, at least 10^5 of them, not from a single pair.
C18_OffsetOverRepeatedSamples ==
    (program_args.time_func = "rdtsc" /\ calibWrites.offset > 0) =>
        calibWrites.samples >= 100000

\* C19: a pipeline that masked interrupts has unmasked them when it ends,
\* on every path: by the end of its run and by an abort (a failed clock
\* read, a zero interval, a slot written out of range) alike.
C19_UnmaskedWhenPipelineEnds ==
    \A i \in Running : Terminated(threads[i]) => ~threads[i].masked

\* C20: the bodies of the requests publish_results has sent, concatenated in
\* request order, are the records of the samples it was given, in sample
\* order: each sample is in exactly one body, none is dropped or sent
\* twice, and a body holds whole records only.
C20_RequestsCarryEverySampleOnce ==
    \A i \in Running :
        threads[i].pc = "done" =>
            /\ Published(threads[i]) = threads[i].results
            /\ BodyLen(program_args, threads[i].cpu, Published(threads[i])) =
                   BodyLen(program_args, threads[i].cpu, threads[i].results)

\* C20 witness: the samples went out in a full batch of several records
\* followed by a remainder that holds a sample too.
C20_Witness ==
    \E i \in Running :
        /\ threads[i].pc = "done"
        /\ Len(threads[i].requests) = 2
        /\ Len(threads[i].requests[1]) >= 2
        /\ threads[i].requests[2] # <<>>
        /\ threads[i].idx >= 2
====
